---- MODULE Spec2Model ----
(***************************************************************************)
(* A model of runehistory-api's storage adapter and its auth services:    *)
(*   src/runehistory/framework/services/mongo.py  (MongoTableAdapter)      *)
(*   src/runehistory_api/app/services/auth.py     (PermissionService,      *)
(*                                                 JwtService)             *)
(*                                                                         *)
(* Python values are tagged one-field records, so that isinstance() and    *)
(* == between values of different types are expressible:                   *)
(*   None -> [none |-> TRUE]      'a'  -> [str |-> "a"]                    *)
(*   5    -> [int |-> 5]          ObjectId(n) -> [oid |-> n]               *)
(*   [..] -> [list |-> <<..>>]    {..} -> [dict |-> function on strings]   *)
(* A raised exception is [error |-> name].                                 *)
(***************************************************************************)
EXTENDS Integers, Sequences, FiniteSets, TLC

VARIABLES
    identifier,   \* MongoTableAdapter.identifier: None or a Str
    collection,   \* the backend collection: sequence of documents (dicts)
    next_oid,     \* the backend's ObjectId generator
    returned,     \* the records that successful inserts have returned
    call,         \* the last table operation: arguments, backend call, result
    record,       \* codec: the record given to _record_to_id
    encoded,      \* codec: _record_to_id(record)
    decoded,      \* codec: _record_from_id(encoded)
    where,        \* translator: the conditions given to _parse_conditions
    parsed,       \* translator: the native filter (or the exception raised)
    user,         \* auth: the User (username, type, id)
    now,          \* auth: datetime.utcnow() in seconds since the epoch
    jwt,          \* auth: the Jwt last made, or None
    made_for,     \* auth: the User that jwt was made for
    auth          \* auth: the last auth operation and its result

vars == <<identifier, collection, next_oid, returned, call, record, encoded, decoded,
          where, parsed, user, now, jwt, made_for, auth>>

---------------------------------------------------------------------------
(* Python values *)

None == [none |-> TRUE]
Str(s) == [str |-> s]
Num(n) == [int |-> n]
Bool(b) == [bool |-> b]
ObjectId(n) == [oid |-> n]
List(s) == [list |-> s]
Dict(f) == [dict |-> f]
Error(e) == [error |-> e]
Unset == [unset |-> TRUE]

IsStr(x) == "str" \in DOMAIN x
IsObjectId(x) == "oid" \in DOMAIN x
IsList(x) == "list" \in DOMAIN x
IsDict(x) == "dict" \in DOMAIN x
IsError(x) == "error" \in DOMAIN x

EmptyDict == Dict(<<>>)

\* Python truthiness, as used by `if not x`
Falsy(x) ==
    \/ x = None
    \/ IsList(x) /\ x.list = <<>>
    \/ IsDict(x) /\ DOMAIN x.dict = {}
    \/ IsStr(x) /\ x.str = ""

\* dict.pop(k) and d[k] = v, as the dict they leave
DictPop(d, k) == Dict([f \in DOMAIN d.dict \ {k} |-> d.dict[f]])
DictSet(d, k, v) == Dict((k :> v) @@ d.dict)

\* str(ObjectId(..)): the id's text
ObjectIdToStr(x) == Str(ToString(x.oid))

\* The first exception raised while evaluating a sequence left to right
HasError(results) == \E i \in DOMAIN results : IsError(results[i])
FirstError(results) ==
    results[CHOOSE i \in DOMAIN results :
                /\ IsError(results[i])
                /\ \A j \in DOMAIN results : IsError(results[j]) => i <= j]

---------------------------------------------------------------------------
(* Bounds *)

MaxOperands == 2
MaxDocs == 2
MaxClock == 2

---------------------------------------------------------------------------
(* The condition translator: mongo.py lines 88-129 *)

\* dict.items() visits the statements in insertion order; the modelled
\* condition dicts are built with "and" before "or".
StatementOrder == <<"and", "or">>

DictItems(d) == SelectSeq(StatementOrder, LAMBDA s : s \in DOMAIN d)

\* dict.update over a sequence of dicts, left to right
UpdateAll(dicts) ==
    LET dom == UNION {DOMAIN dicts[i].dict : i \in DOMAIN dicts}
        last(k) == CHOOSE i \in DOMAIN dicts :
                      /\ k \in DOMAIN dicts[i].dict
                      /\ \A j \in DOMAIN dicts :
                            k \in DOMAIN dicts[j].dict => j <= i
    IN IF dom = {} THEN EmptyDict
       ELSE Dict([k \in dom |-> dicts[last(k)].dict[k]])

RECURSIVE _parse_conditions(_, _)
RECURSIVE _parse_condition(_)
RECURSIVE _parse_condition_list(_)
RECURSIVE _parse_condition_dict(_)

\* A slip of _parse_conditions: `if conditions is None` for `if not conditions`
_parse_conditions_is_none(conditions, statement) ==
    IF conditions = None THEN EmptyDict
    ELSE LET items == [i \in 1..Len(conditions.list) |->
                          _parse_condition(conditions.list[i])]
         IN IF HasError(items) THEN FirstError(items)
            ELSE Dict(("$" \o statement) :> List(items))

\* `conditions` is None or a list, as find_one, find and
\* _parse_condition_dict give it
_parse_conditions(conditions, statement) ==
    IF Falsy(conditions) THEN EmptyDict
    ELSE LET items == [i \in 1..Len(conditions.list) |->
                          _parse_condition(conditions.list[i])]
         IN IF HasError(items) THEN FirstError(items)
            ELSE Dict(("$" \o statement) :> List(items))

_parse_condition(condition) ==
    IF IsList(condition) THEN _parse_condition_list(condition)
    ELSE IF IsDict(condition) THEN _parse_condition_dict(condition)
    ELSE None

\* _parse_condition_list with the native operator of the shorthand and of
\* '>=' as parameters: the code is ParseConditionListWith(c, "$eq", "$gte")
ParseConditionListWith(condition, shorthand, gte) ==
    LET c == condition.list IN
    IF Len(c) = 0 THEN Error("IndexError")
    ELSE
    LET key == IF c[1] = identifier THEN "_id" ELSE c[1].str IN
    IF Len(c) = 2 THEN
        IF IsDict(c[2]) THEN _parse_condition_dict(c[2])
        ELSE Dict(key :> Dict(shorthand :> c[2]))
    ELSE IF Len(c) = 3 /\ c[2] = Str("=") THEN Dict(key :> Dict("$eq" :> c[3]))
    ELSE IF Len(c) = 3 /\ c[2] = Str(">") THEN Dict(key :> Dict("$gt" :> c[3]))
    ELSE IF Len(c) = 3 /\ c[2] = Str(">=") THEN Dict(key :> Dict(gte :> c[3]))
    ELSE IF Len(c) = 3 /\ c[2] = Str("<") THEN Dict(key :> Dict("$lt" :> c[3]))
    ELSE IF Len(c) = 3 /\ c[2] = Str("<=") THEN Dict(key :> Dict("$lte" :> c[3]))
    ELSE Error("Exception")

\* A slip of _parse_condition_list: the shorthand emits $ne
_parse_condition_list_shorthand_ne(condition) ==
    ParseConditionListWith(condition, "$ne", "$gte")

\* A slip of _parse_condition_list: '>=' emits $gt
_parse_condition_list_gte_as_gt(condition) ==
    ParseConditionListWith(condition, "$eq", "$gt")

\* `len(condition) is 2` holds exactly when the length is 2 (small ints are
\* shared objects); condition[0] of an empty list raises IndexError
_parse_condition_list(condition) ==
    LET c == condition.list IN
    IF Len(c) = 0 THEN Error("IndexError")
    ELSE
    LET key == IF c[1] = identifier THEN "_id" ELSE c[1].str IN
    IF Len(c) = 2 THEN
        IF IsDict(c[2]) THEN _parse_condition_dict(c[2])
        ELSE Dict(key :> Dict("$eq" :> c[2]))
    ELSE IF Len(c) = 3 /\ c[2] = Str("=") THEN Dict(key :> Dict("$eq" :> c[3]))
    ELSE IF Len(c) = 3 /\ c[2] = Str(">") THEN Dict(key :> Dict("$gt" :> c[3]))
    ELSE IF Len(c) = 3 /\ c[2] = Str(">=") THEN Dict(key :> Dict("$gte" :> c[3]))
    ELSE IF Len(c) = 3 /\ c[2] = Str("<") THEN Dict(key :> Dict("$lt" :> c[3]))
    ELSE IF Len(c) = 3 /\ c[2] = Str("<=") THEN Dict(key :> Dict("$lte" :> c[3]))
    ELSE Error("Exception")

_parse_condition_dict(conditions) ==
    LET statements == DictItems(conditions.dict)
        results == [i \in 1..Len(statements) |->
                       _parse_conditions(conditions.dict[statements[i]],
                                         statements[i])]
    IN IF HasError(results) THEN FirstError(results)
       ELSE UpdateAll(results)

---------------------------------------------------------------------------
(* Inputs of the translator *)

Identifiers == {None, Str("id")}

CondFields == {"id", "name"}
Operators == {"=", ">", ">=", "<", "<=", "!="}
Scalars == {Str("a"), None}

Comparisons ==
    {List(<<Str(f), Str(o), v>>) : f \in CondFields, o \in Operators, v \in Scalars}
Shorthands == {List(<<Str(f), v>>) : f \in CondFields, v \in Scalars}
Malformed ==
    {List(<<>>), List(<<Str("name")>>),
     List(<<Str("name"), Str("="), Str("a"), Str("b")>>), Str("name")}
BaseConds ==
    {List(<<Str("id"), Str("a")>>),
     List(<<Str("name"), Str(">="), Str("a")>>),
     List(<<Str("name"), Str("!="), Str("a")>>)}

OperandLists(S) ==
    {None} \cup {List(s) : s \in UNION {[1..n -> S] : n \in 0..MaxOperands}}

Groups(S) ==
    {EmptyDict}
    \cup {Dict(s :> l) : s \in {"and", "or"}, l \in OperandLists(S)}
    \cup {Dict(("and" :> l1) @@ ("or" :> l2)) :
              l1 \in OperandLists(S), l2 \in OperandLists(S)}

Groups1 == Groups(BaseConds)
Groups2 == {Dict(s :> List(<<g>>)) : s \in {"and", "or"}, g \in Groups1}
ShorthandGroups == {List(<<Str(f), g>>) : f \in CondFields, g \in Groups1}
ExplicitGroups ==
    {List(<<Str(f), Str("="), g>>) : f \in CondFields, g \in Groups1}

AllConds ==
    Comparisons \cup Shorthands \cup Malformed \cup Groups1 \cup Groups2
    \cup ShorthandGroups \cup ExplicitGroups

WhereInputs ==
    {None, List(<<>>)}
    \cup {List(<<c>>) : c \in AllConds}
    \cup {List(<<c1, c2>>) : c1 \in BaseConds, c2 \in BaseConds}

---------------------------------------------------------------------------
(* SpecCond: _parse_conditions applied to every input *)

InitCond ==
    /\ identifier \in Identifiers
    /\ where \in WhereInputs
    /\ parsed = Unset
    /\ collection = <<>> /\ next_oid = 1 /\ returned = {} /\ call = Unset
    /\ record = Unset /\ encoded = Unset /\ decoded = Unset
    /\ user = Unset /\ now = 0 /\ jwt = None /\ made_for = Unset
    /\ auth = Unset

ParseConditions ==
    /\ parsed = Unset
    /\ parsed' = _parse_conditions(where, "and")
    /\ UNCHANGED <<identifier, collection, next_oid, returned, call, record,
                   encoded, decoded, where, user, now, jwt, made_for, auth>>

NextCond == ParseConditions

SpecCond == InitCond /\ [][NextCond]_vars

---------------------------------------------------------------------------
(* Claims about the translator, checked under SpecCond *)

\* where = [[field, value]]: one shorthand condition
IsShorthandWhere ==
    /\ IsList(where) /\ Len(where.list) = 1
    /\ IsList(where.list[1]) /\ Len(where.list[1].list) = 2
ShorthandValue == where.list[1].list[2]
\* [[field, "=", value]] for the shorthand [[field, value]]
ExplicitOfShorthand ==
    List(<<List(<<where.list[1].list[1], Str("="), ShorthandValue>>)>>)

\* C4 as stated: for every field and every value v, the shorthand [field, v]
\* translates to the same native filter as the explicit [field, "=", v].
C4_ShorthandEqualsExplicit_AnyValue ==
    (parsed # Unset /\ IsShorthandWhere)
        => parsed = _parse_conditions(ExplicitOfShorthand, "and")

\* C4 amended: for every field and every value v that is not a dict, the
\* shorthand [field, v] translates to the same native filter as the explicit
\* [field, "=", v] (a dict in the value position is parsed as a nested group).
C4_ShorthandEqualsExplicit ==
    (parsed # Unset /\ IsShorthandWhere /\ ~IsDict(ShorthandValue))
        => parsed = _parse_conditions(ExplicitOfShorthand, "and")

C4_Witness ==
    /\ identifier = Str("id")
    /\ where = List(<<List(<<Str("id"), Str("a")>>)>>)
    /\ parsed = Dict("$and" :> List(<<Dict("_id" :> Dict("$eq" :> Str("a")))>>))

\* where = [[field, operator, value]]: one three-element comparison
IsComparisonWhere ==
    /\ IsList(where) /\ Len(where.list) = 1
    /\ IsList(where.list[1]) /\ Len(where.list[1].list) = 3
    /\ IsStr(where.list[1].list[1]) /\ IsStr(where.list[1].list[2])
ComparisonField == where.list[1].list[1]
ComparisonOperator == where.list[1].list[2].str
ComparisonValue == where.list[1].list[3]

\* The native operator the specification gives each comparison operator
NativeOperator ==
    ("=" :> "$eq") @@ (">" :> "$gt") @@ (">=" :> "$gte")
    @@ ("<" :> "$lt") @@ ("<=" :> "$lte")

\* C5: each of =, >, >=, <, <= translates to its own native operator on the
\* identifier-rewritten field, and a three-element comparison with any other
\* operator string raises instead of producing a filter.
C5_OperatorsMapOrFail ==
    (parsed # Unset /\ IsComparisonWhere) =>
        IF ComparisonOperator \in DOMAIN NativeOperator
        THEN parsed =
               Dict("$and" :> List(<<
                   Dict((IF ComparisonField = identifier THEN "_id"
                         ELSE ComparisonField.str)
                        :> Dict(NativeOperator[ComparisonOperator]
                                :> ComparisonValue))>>))
        ELSE IsError(parsed)

C5_Witness ==
    /\ identifier = Str("id")
    /\ where = List(<<List(<<Str("id"), Str("!="), Str("a")>>)>>)
    /\ parsed = Error("Exception")

CombinatorKeys == {"$and", "$or"}

\* No combinator node of a native filter has an empty operand list
RECURSIVE NoEmptyCombinator(_)
NoEmptyCombinator(x) ==
    IF IsDict(x)
    THEN \A k \in DOMAIN x.dict :
            /\ (k \in CombinatorKeys /\ IsList(x.dict[k]))
                   => x.dict[k].list # <<>>
            /\ NoEmptyCombinator(x.dict[k])
    ELSE IF IsList(x)
    THEN \A i \in DOMAIN x.list : NoEmptyCombinator(x.list[i])
    ELSE TRUE

\* where = [group] with a group none of whose combinators has an operand
IsEmptyGroupWhere ==
    /\ IsList(where) /\ Len(where.list) = 1
    /\ IsDict(where.list[1])
    /\ \A s \in DOMAIN where.list[1].dict : Falsy(where.list[1].dict[s])

\* C6: the native filter holds no combinator with an empty operand list at
\* any depth; a group with no operands translates to the empty filter, and a
\* nil or empty top-level expression translates to the empty filter.
C6_NoEmptyCombinator ==
    (parsed # Unset /\ ~IsError(parsed)) =>
        /\ NoEmptyCombinator(parsed)
        /\ Falsy(where) => parsed = EmptyDict
        /\ IsEmptyGroupWhere => parsed = Dict("$and" :> List(<<EmptyDict>>))

C6_Witness ==
    /\ where = List(<<Dict("or" :> List(<<Dict("and" :> List(<<>>))>>))>>)
    /\ parsed = Dict("$and" :> List(<<Dict("$or" :> List(<<EmptyDict>>))>>))

---------------------------------------------------------------------------
(* The record codec: mongo.py lines 28-38 *)

_record_to_id(rec) ==
    IF ~Falsy(identifier) /\ identifier.str \in DOMAIN rec.dict
    THEN DictSet(DictPop(rec, identifier.str), "_id", rec.dict[identifier.str])
    ELSE rec

\* A slip of _record_from_id: the native key is copied, not popped
_record_from_id_keeps_native(rec) ==
    LET r1 == IF "_id" \in DOMAIN rec.dict /\ IsObjectId(rec.dict["_id"])
              THEN DictSet(rec, "_id", ObjectIdToStr(rec.dict["_id"]))
              ELSE rec
    IN IF ~Falsy(identifier) /\ "_id" \in DOMAIN r1.dict
       THEN DictSet(r1, identifier.str, r1.dict["_id"])
       ELSE r1

_record_from_id(rec) ==
    LET r1 == IF "_id" \in DOMAIN rec.dict /\ IsObjectId(rec.dict["_id"])
              THEN DictSet(rec, "_id", ObjectIdToStr(rec.dict["_id"]))
              ELSE rec
    IN IF ~Falsy(identifier) /\ "_id" \in DOMAIN r1.dict
       THEN DictSet(DictPop(r1, "_id"), identifier.str, r1.dict["_id"])
       ELSE r1

---------------------------------------------------------------------------
(* SpecCodec: _record_to_id then _record_from_id on every input record *)

CodecFields == {"id", "_id", "name"}
CodecValues == {None, Str("a"), Str("b"), ObjectId(1)}

CodecRecords ==
    {Dict(f) : f \in {g \in UNION {[D -> CodecValues \cup {Str("bob")}] :
                                       D \in SUBSET CodecFields} :
                        /\ "name" \in DOMAIN g => g["name"] = Str("bob")
                        /\ \A k \in DOMAIN g \ {"name"} : g[k] \in CodecValues}}

InitCodec ==
    /\ identifier \in Identifiers
    /\ record \in CodecRecords
    /\ encoded = Unset /\ decoded = Unset
    /\ collection = <<>> /\ next_oid = 1 /\ returned = {} /\ call = Unset
    /\ where = None /\ parsed = Unset
    /\ user = Unset /\ now = 0 /\ jwt = None /\ made_for = Unset
    /\ auth = Unset

Encode ==
    /\ encoded = Unset
    /\ encoded' = _record_to_id(record)
    /\ UNCHANGED <<identifier, collection, next_oid, returned, call, record,
                   decoded, where, parsed, user, now, jwt, made_for, auth>>

Decode ==
    /\ encoded # Unset /\ decoded = Unset
    /\ decoded' = _record_from_id(encoded)
    /\ UNCHANGED <<identifier, collection, next_oid, returned, call, record,
                   encoded, where, parsed, user, now, jwt, made_for, auth>>

NextCodec == Encode \/ Decode

SpecCodec == InitCodec /\ [][NextCodec]_vars

\* The name of the record's key field: the logical identifier when the table
\* has one, the native key otherwise
KeyField == IF Falsy(identifier) THEN "_id" ELSE identifier.str

KeyNotNil(rec) ==
    KeyField \in DOMAIN rec.dict /\ rec.dict[KeyField] # None

NoOpaqueId(rec) == \A f \in DOMAIN rec.dict : ~IsObjectId(rec.dict[f])

\* C3 as stated: for every record r with a non-nil key and no opaque id
\* value, under every identifier mapping, decode(encode(r)) = r.
C3_RoundTrip_AnyRecord ==
    (decoded # Unset /\ KeyNotNil(record) /\ NoOpaqueId(record))
        => decoded = record

\* C3 amended: for every record r with a non-nil key and no opaque id value
\* that, when an identifier mapping is set, has no field of its own named
\* "_id" beside the logical identifier, decode(encode(r)) = r.
C3_RoundTrip ==
    (/\ decoded # Unset /\ KeyNotNil(record) /\ NoOpaqueId(record)
     /\ KeyField # "_id" => "_id" \notin DOMAIN record.dict)
        => decoded = record

C3_Witness ==
    /\ identifier = Str("id")
    /\ record = Dict(("id" :> Str("a")) @@ ("name" :> Str("bob")))
    /\ encoded = Dict(("_id" :> Str("a")) @@ ("name" :> Str("bob")))
    /\ decoded = record

---------------------------------------------------------------------------
(* The projection builder: mongo.py lines 40-48.  `field is self.identifier` *)
(* compares object identity: for a field equal to the identifier it is true  *)
(* only when both are the same string object, which `same_object` states.   *)

_projection_from_list(fields, same_object) ==
    IF Falsy(fields) THEN EmptyDict
    ELSE LET renamed == [i \in DOMAIN fields.list |->
                            IF fields.list[i] = identifier /\ same_object
                            THEN "_id" ELSE fields.list[i].str]
             names == {renamed[i] : i \in DOMAIN renamed}
         IN Dict([f \in names \cup {"_id"} |->
                     IF f \in names THEN Num(1) ELSE Num(0)])

---------------------------------------------------------------------------
(* The backend collection (pymongo), as insert / find_one / find use it *)

ASCENDING == 1
DESCENDING == -1
DefaultLimit == 100

\* BSON comparison order of the modelled values: null, strings, ObjectIds
StringOrder == <<"1", "2", "3", "4", "a", "amy", "b", "bob", "k1", "k2">>
TypeRank(v) == IF v = None THEN 0 ELSE IF IsStr(v) THEN 1 ELSE 2
ValueRank(v) ==
    IF v = None THEN 0
    ELSE IF IsStr(v)
         THEN CHOOSE i \in DOMAIN StringOrder : StringOrder[i] = v.str
         ELSE v.oid

\* A document's value of a field; a missing field compares as null
FieldValue(doc, f) == IF f \in DOMAIN doc.dict THEN doc.dict[f] ELSE None

MongoCompare(op, a, v) ==
    IF op = "$eq" THEN a = v
    ELSE IF TypeRank(a) # TypeRank(v) THEN FALSE
    ELSE IF op = "$gt" THEN ValueRank(a) > ValueRank(v)
    ELSE IF op = "$gte" THEN ValueRank(a) >= ValueRank(v)
    ELSE IF op = "$lt" THEN ValueRank(a) < ValueRank(v)
    ELSE ValueRank(a) <= ValueRank(v)

RECURSIVE MongoMatches(_, _)
MongoMatches(doc, filter) ==
    \A k \in DOMAIN filter.dict :
        IF k = "$and"
        THEN \A i \in DOMAIN filter.dict[k].list :
                 MongoMatches(doc, filter.dict[k].list[i])
        ELSE IF k = "$or"
        THEN \E i \in DOMAIN filter.dict[k].list :
                 MongoMatches(doc, filter.dict[k].list[i])
        ELSE \A op \in DOMAIN filter.dict[k].dict :
                 MongoCompare(op, FieldValue(doc, k), filter.dict[k].dict[op])

\* A projection given as a list of names includes them and the native key
MongoProject(doc, projection) ==
    IF projection = None THEN doc
    ELSE LET keep == {projection.list[i].str : i \in DOMAIN projection.list}
                     \cup {"_id"}
         IN Dict([f \in DOMAIN doc.dict \cap keep |-> doc.dict[f]])

MongoFiltered(filter) == SelectSeq(collection, LAMBDA d : MongoMatches(d, filter))

\* d1 sorts strictly before d2 under the (field, direction) pairs from i on
RECURSIVE SortsBefore(_, _, _, _)
SortsBefore(d1, d2, sort, i) ==
    IF i > Len(sort) THEN FALSE
    ELSE LET a == FieldValue(d1, sort[i][1])
             b == FieldValue(d2, sort[i][1])
             ka == <<TypeRank(a), ValueRank(a)>>
             kb == <<TypeRank(b), ValueRank(b)>>
             less == ka[1] < kb[1] \/ (ka[1] = kb[1] /\ ka[2] < kb[2])
             more == kb[1] < ka[1] \/ (ka[1] = kb[1] /\ kb[2] < ka[2])
         IN IF ka = kb THEN SortsBefore(d1, d2, sort, i + 1)
            ELSE IF sort[i][2] = ASCENDING THEN less ELSE more

\* Stable sort: a document's place is the number of documents before it
MongoSorted(docs, sort) ==
    LET place(i) == Cardinality({j \in DOMAIN docs :
                        \/ SortsBefore(docs[j], docs[i], sort, 1)
                        \/ (~SortsBefore(docs[i], docs[j], sort, 1) /\ j < i)})
    IN [p \in DOMAIN docs |-> docs[CHOOSE i \in DOMAIN docs : place(i) = p - 1]]

\* cursor.limit(n).skip(k).sort(s): sort, then skip, then limit (0: no limit)
MongoCursor(filter, projection, limit, skip, sort) ==
    LET matched == MongoFiltered(filter)
        sorted == IF sort = Unset THEN matched ELSE MongoSorted(matched, sort.list)
        from == IF skip = Unset THEN 1 ELSE skip.int + 1
        upto == IF limit.int = 0 THEN Len(sorted)
                ELSE IF from + limit.int - 1 < Len(sorted)
                     THEN from + limit.int - 1 ELSE Len(sorted)
    IN [i \in 1..(IF upto < from THEN 0 ELSE upto - from + 1) |->
           MongoProject(sorted[from + i - 1], projection)]

---------------------------------------------------------------------------
(* The table operations: mongo.py lines 50-86 *)

\* insert: lines 50-58.  insert_one adds the generated _id to the dict it is
\* given, and raises DuplicateKeyError on a native key already stored.
Insert(rec) ==
    LET r1 == _record_to_id(rec) IN
    IF "_id" \notin DOMAIN r1.dict
    THEN /\ call' = [op |-> "insert", record |-> rec, handed |-> Unset,
                     result |-> Error("KeyError")]
         /\ UNCHANGED <<collection, next_oid, returned>>
    ELSE LET r2 == IF r1.dict["_id"] = None THEN DictPop(r1, "_id") ELSE r1
             generated == "_id" \notin DOMAIN r2.dict
             doc == IF generated THEN DictSet(r2, "_id", ObjectId(next_oid))
                    ELSE r2
             duplicate == \E i \in DOMAIN collection :
                              collection[i].dict["_id"] = doc.dict["_id"]
         IN IF duplicate
            THEN /\ call' = [op |-> "insert", record |-> rec, handed |-> r2,
                             result |-> Error("DuplicateError")]
                 /\ UNCHANGED <<collection, next_oid, returned>>
            ELSE /\ Len(collection) < MaxDocs
                 /\ collection' = Append(collection, doc)
                 /\ next_oid' = IF generated THEN next_oid + 1 ELSE next_oid
                 /\ returned' = returned \cup {_record_from_id(doc)}
                 /\ call' = [op |-> "insert", record |-> rec, handed |-> r2,
                             result |-> _record_from_id(doc)]

\* find_one: lines 60-69
FindOne(conditions, fields) ==
    LET parsed_where == _parse_conditions(conditions, "and") IN
    /\ call' =
         IF IsError(parsed_where)
         THEN [op |-> "find_one", where |-> conditions, fields |-> fields,
               handed |-> Unset, result |-> parsed_where]
         ELSE LET found == MongoCursor(parsed_where, fields, Num(1), Unset, Unset)
              IN [op |-> "find_one", where |-> conditions, fields |-> fields,
                  handed |-> [filter |-> parsed_where, projection |-> fields],
                  result |-> IF found = <<>> THEN None
                             ELSE _record_from_id(found[1])]
    /\ UNCHANGED <<collection, next_oid, returned>>

\* The direction of one order item, line 83: `item[1] is 'desc'` is true only
\* of the string object of the literal itself (item.literal), not of an equal
\* string built at run time.
Direction(item) ==
    IF item.direction = "desc" /\ item.literal THEN DESCENDING ELSE ASCENDING

\* find: lines 71-86.  limit = Unset is a call that gives no limit.
Find(conditions, fields, limit, offset, order) ==
    LET parsed_where == _parse_conditions(conditions, "and")
        used_limit == IF limit = Unset THEN Num(DefaultLimit) ELSE limit
        skip == IF offset # None THEN offset ELSE Unset
        sort == IF order # None
                THEN List([i \in DOMAIN order.list |->
                              <<order.list[i].field, Direction(order.list[i])>>])
                ELSE Unset
    IN
    /\ call' =
         IF IsError(parsed_where)
         THEN [op |-> "find", where |-> conditions, fields |-> fields,
               limit |-> limit, offset |-> offset, order |-> order,
               handed |-> Unset, result |-> parsed_where]
         ELSE LET found == MongoCursor(parsed_where, fields, used_limit, skip, sort)
              IN [op |-> "find", where |-> conditions, fields |-> fields,
                  limit |-> limit, offset |-> offset, order |-> order,
                  handed |-> [filter |-> parsed_where, projection |-> fields,
                              limit |-> used_limit, skip |-> skip, sort |-> sort],
                  result |-> List([i \in DOMAIN found |->
                                      _record_from_id(found[i])])]
    /\ UNCHANGED <<collection, next_oid, returned>>

---------------------------------------------------------------------------
(* Spec: a table under inserts and queries *)

InsertRecords ==
    {Dict("username" :> u) : u \in {Str("bob")}}
    \cup {Dict(("id" :> k) @@ ("username" :> u)) :
              k \in {None, Str("k1"), Str("k2")}, u \in {Str("bob"), Str("amy")}}
    \cup {Dict(("_id" :> k) @@ ("username" :> Str("amy"))) :
              k \in {None, Str("k1")}}

\* find_one([[identifier, k]]) for the key k an insert returned, as
\* UserService.find_one_by_id does (auth.py lines 22-23)
WheresById ==
    IF Falsy(identifier) THEN {}
    ELSE {List(<<List(<<identifier, r.dict[identifier.str]>>)>>) : r \in returned}

TableWheres ==
    {None,
     List(<<List(<<Str("username"), Str("bob")>>)>>),
     List(<<List(<<Str("id"), Str(">"), Str("k1")>>)>>),
     List(<<List(<<Str("username"), Str("!="), Str("bob")>>)>>),
     List(<<Dict("or" :> List(<<List(<<Str("id"), Str("k2")>>),
                                List(<<Str("username"), Str("amy")>>)>>))>>)}

TableFields ==
    {None, List(<<Str("id"), Str("username")>>), List(<<Str("username")>>)}

TableOrders ==
    {None,
     List(<<[field |-> "username", direction |-> "desc", literal |-> TRUE]>>),
     List(<<[field |-> "username", direction |-> "desc", literal |-> FALSE]>>),
     List(<<[field |-> "username", direction |-> "desc", literal |-> TRUE],
            [field |-> "_id", direction |-> "asc", literal |-> TRUE]>>)}

FindWheres ==
    {None, List(<<List(<<Str("id"), Str(">"), Str("k1")>>)>>),
     List(<<List(<<Str("username"), Str("!="), Str("bob")>>)>>)}

Init ==
    /\ identifier \in Identifiers
    /\ collection = <<>> /\ next_oid = 1 /\ returned = {} /\ call = Unset
    /\ record = Unset /\ encoded = Unset /\ decoded = Unset
    /\ where = None /\ parsed = Unset
    /\ user = Unset /\ now = 0 /\ jwt = None /\ made_for = Unset
    /\ auth = Unset

TableUnchanged ==
    UNCHANGED <<identifier, record, encoded, decoded, where, parsed, user,
                now, jwt, made_for, auth>>

DoInsert == \E rec \in InsertRecords : Insert(rec) /\ TableUnchanged

DoFindOne ==
    \E w \in TableWheres \cup WheresById, f \in TableFields :
        FindOne(w, f) /\ TableUnchanged

DoFind ==
    \E w \in FindWheres, f \in {None, List(<<Str("username")>>)},
       l \in {Unset, Num(1)}, o \in {None, Num(1)}, s \in TableOrders :
        Find(w, f, l, o, s) /\ TableUnchanged

Next == DoInsert \/ DoFindOne \/ DoFind

Spec == Init /\ [][Next]_vars

---------------------------------------------------------------------------
(* Claims about the table, checked under Spec *)

\* A record with a nil key on a table with a logical identifier: it carries
\* no identifier field, or None in it, and no native key of its own
NilKeyRecord(rec) ==
    /\ ~Falsy(identifier)
    /\ identifier.str \in DOMAIN rec.dict => rec.dict[identifier.str] = None
    /\ "_id" \notin DOMAIN rec.dict \/ identifier.str = "_id"

\* C2: for every record with a nil key on a table with a logical identifier
\* (also a record with no identifier field at all), insert hands the backend
\* a record with no native key field, succeeds, and returns a record whose
\* identifier field holds the backend-assigned key and whose other fields
\* equal the input's.
C2_InsertNilKey ==
    (call # Unset /\ call.op = "insert" /\ NilKeyRecord(call.record)) =>
        /\ call.handed # Unset
        /\ "_id" \notin DOMAIN call.handed.dict
        /\ ~IsError(call.result)
        /\ identifier.str \in DOMAIN call.result.dict
        /\ call.result.dict[identifier.str] # None
        /\ DictPop(call.result, identifier.str)
               = DictPop(call.record, identifier.str)

\* C7: the projection find_one and find hand to the backend is the one
\* _projection_from_list builds from `fields`: none when fields is nil or
\* empty, else the listed fields with the identifier rewritten to the native
\* key, which is excluded when the identifier was not listed.
C7_ProjectionHanded ==
    (call # Unset /\ call.op \in {"find_one", "find"} /\ call.handed # Unset) =>
        IF Falsy(call.fields)
        THEN call.handed.projection \in {None, EmptyDict}
        ELSE \E same_object \in BOOLEAN :
                 call.handed.projection
                     = _projection_from_list(call.fields, same_object)

\* C8: find applies the limit (100 when the caller gives none), a skip only
\* when offset is given, and a sort only when order is given, with one
\* (field, direction) pair per order entry in the same sequence, "desc" as
\* DESCENDING and "asc" as ASCENDING.
C8_FindCursor ==
    (call # Unset /\ call.op = "find" /\ call.handed # Unset) =>
        /\ call.handed.limit
               = (IF call.limit = Unset THEN Num(DefaultLimit) ELSE call.limit)
        /\ call.handed.skip
               = (IF call.offset = None THEN Unset ELSE call.offset)
        /\ call.order = None => call.handed.sort = Unset
        /\ call.order # None =>
               call.handed.sort =
                   List([i \in DOMAIN call.order.list |->
                            <<call.order.list[i].field,
                              IF call.order.list[i].direction = "desc"
                              THEN DESCENDING ELSE ASCENDING>>])

\* C10: after any successful inserts on a table with a logical identifier,
\* find_one([[identifier, k]]) with the key k that insert returned for a
\* record returns that record.
C10_FindInserted ==
    (call # Unset /\ call.op = "find_one" /\ ~Falsy(identifier)
     /\ call.fields = None) =>
        \A r \in returned :
            call.where =
                List(<<List(<<identifier, r.dict[identifier.str]>>)>>)
            => call.result = r

---------------------------------------------------------------------------
(* PermissionService: auth.py lines 36-58 *)

AllCapabilities == List(<<Str("r"), Str("c"), Str("u"), Str("d")>>)

\* A slip of generate: the guest grant also lists the users scope
generate_guest_users(u) ==
    IF u.type = "service"
    THEN Dict(("accounts" :> AllCapabilities)
              @@ ("highscores" :> AllCapabilities)
              @@ ("users" :> AllCapabilities))
    ELSE IF u.type = "guest"
    THEN Dict(("accounts" :> List(<<Str("r"), Str("c")>>))
              @@ ("highscores" :> List(<<Str("r")>>))
              @@ ("users" :> List(<<Str("r")>>)))
    ELSE Error("ValueError")

generate(u) ==
    IF u.type = "service"
    THEN Dict(("accounts" :> AllCapabilities)
              @@ ("highscores" :> AllCapabilities)
              @@ ("users" :> AllCapabilities))
    ELSE IF u.type = "guest"
    THEN Dict(("accounts" :> List(<<Str("r"), Str("c")>>))
              @@ ("highscores" :> List(<<Str("r")>>)))
    ELSE Error("ValueError")

\* x in list
Contains(l, x) == \E i \in DOMAIN l.list : l.list[i] = x

check_permission(scope, permissions, required) ==
    LET scope_perms == IF scope \in DOMAIN permissions.dict
                       THEN permissions.dict[scope] ELSE None
    IN IF Falsy(scope_perms) THEN FALSE
       ELSE IF ~Contains(scope_perms, Str("*"))
               /\ ~Contains(scope_perms, Str(required)) THEN FALSE
       ELSE TRUE

---------------------------------------------------------------------------
(* JwtService: auth.py lines 61-102 *)

Secret == "secret"
ValiditySeconds == 600

generate_subject(u) == u.username \o "-" \o u.type \o "_" \o u.id

\* make: the Jwt's secret, payload and registered claims, at the time `now`
make(u) ==
    LET permissions == generate(u) IN
    IF IsError(permissions) THEN permissions
    ELSE [secret |-> Secret,
          payload |-> Dict("aut" :> permissions),
          iss |-> "rh-api",
          sub |-> generate_subject(u),
          iat |-> now,
          nbf |-> now,
          exp |-> now + ValiditySeconds]

\* Jwt.compare(other) of simplejwt, with its default compare_dates=False:
\* the secret, the payload and the registered claims but exp, nbf and iat
JwtCompare(a, b) ==
    /\ a.secret = b.secret
    /\ a.payload = b.payload
    /\ a.iss = b.iss
    /\ a.sub = b.sub

\* A slip of validate_content: the given jwt is compared with itself
validate_content_self(u, token) ==
    LET new_jwt == make(u) IN
    IF IsError(new_jwt) THEN new_jwt
    ELSE Bool(JwtCompare(token, token))

validate_content(u, token) ==
    LET new_jwt == make(u) IN
    IF IsError(new_jwt) THEN new_jwt
    ELSE Bool(JwtCompare(token, new_jwt))

---------------------------------------------------------------------------
(* SpecAuth: tokens and permission checks while the user's type changes *)

UserTypes == {"service", "guest", "admin"}
KnownTypes == {"service", "guest"}
Scopes == {"accounts", "highscores", "users", "clans"}
Capabilities == {"r", "c", "u", "d"}

InitAuth ==
    /\ user \in [username : {"bob"}, type : UserTypes, id : {"7"}]
    /\ now = 0 /\ jwt = None /\ made_for = Unset /\ auth = Unset
    /\ identifier = None
    /\ collection = <<>> /\ next_oid = 1 /\ returned = {} /\ call = Unset
    /\ record = Unset /\ encoded = Unset /\ decoded = Unset
    /\ where = None /\ parsed = Unset

AuthUnchanged ==
    UNCHANGED <<identifier, collection, next_oid, returned, call, record,
                encoded, decoded, where, parsed>>

\* JwtService.make(user)
Make ==
    /\ auth' = [op |-> "make", result |-> make(user)]
    /\ IF IsError(make(user))
       THEN UNCHANGED <<jwt, made_for>>
       ELSE jwt' = make(user) /\ made_for' = user
    /\ UNCHANGED <<user, now>>
    /\ AuthUnchanged

\* JwtService.validate_content(user, jwt) on the Jwt made last
ValidateContent ==
    /\ jwt # None
    /\ auth' = [op |-> "validate_content",
                result |-> validate_content(user, jwt)]
    /\ UNCHANGED <<user, now, jwt, made_for>>
    /\ AuthUnchanged

\* The stored user's type changes between two calls
SetType(t) ==
    /\ t # user.type
    /\ user' = [user EXCEPT !.type = t]
    /\ auth' = [op |-> "set_type"]
    /\ UNCHANGED <<now, jwt, made_for>>
    /\ AuthUnchanged

\* A second passes: datetime.utcnow() advances
Tick ==
    /\ now < MaxClock
    /\ now' = now + 1
    /\ auth' = [op |-> "tick"]
    /\ UNCHANGED <<user, jwt, made_for>>
    /\ AuthUnchanged

\* check_permission on the grant generate returns for the user
CheckPermission(scope, required) ==
    /\ user.type \in KnownTypes
    /\ auth' = [op |-> "check_permission", type |-> user.type,
                scope |-> scope, required |-> required,
                result |-> Bool(check_permission(scope, generate(user),
                                                 required))]
    /\ UNCHANGED <<user, now, jwt, made_for>>
    /\ AuthUnchanged

\* check_permission on the grant a decoded token carries
CheckTokenPermission(scope, required) ==
    /\ jwt # None
    /\ auth' = [op |-> "check_permission", type |-> made_for.type,
                scope |-> scope, required |-> required,
                result |-> Bool(check_permission(scope, jwt.payload.dict["aut"],
                                                 required))]
    /\ UNCHANGED <<user, now, jwt, made_for>>
    /\ AuthUnchanged

NextAuth ==
    \/ Make
    \/ ValidateContent
    \/ \E t \in UserTypes : SetType(t)
    \/ Tick
    \/ \E s \in Scopes, c \in Capabilities : CheckPermission(s, c)
    \/ \E s \in Scopes, c \in Capabilities : CheckTokenPermission(s, c)

SpecAuth == InitAuth /\ [][NextAuth]_vars

\* C1: for every identity with a known role, validate_content(identity, jwt)
\* is true when jwt is what make(identity) just produced, and false when the
\* identity's role has changed between that make and the validation.
C1_ValidateAfterMake ==
    (auth # Unset /\ auth.op = "validate_content" /\ user.type \in KnownTypes)
    => /\ (made_for = user /\ jwt.iat = now) => auth.result = Bool(TRUE)
       /\ made_for.type # user.type => auth.result = Bool(FALSE)

C1_Witness ==
    /\ auth # Unset /\ auth.op = "validate_content"
    /\ made_for.type = "service" /\ user.type = "guest"
    /\ auth.result = Bool(FALSE)

\* C9: on the grant of a "service" identity check_permission is true for
\* each of r, c, u, d on accounts, highscores and users; on the grant of a
\* "guest" identity it is true exactly for c and r on accounts and r on
\* highscores, and false for every capability on users.
C9_Grants ==
    (auth # Unset /\ auth.op = "check_permission") =>
        /\ auth.type = "service" =>
               auth.result
                   = Bool(auth.scope \in {"accounts", "highscores", "users"})
        /\ auth.type = "guest" =>
               auth.result
                   = Bool(\/ auth.scope = "accounts" /\ auth.required \in {"c", "r"}
                          \/ auth.scope = "highscores" /\ auth.required = "r")

C9_Witness ==
    /\ auth # Unset /\ auth.op = "check_permission"
    /\ auth.type = "guest" /\ auth.scope = "users" /\ auth.required = "r"
    /\ auth.result = Bool(FALSE)

====
